---- MODULE Spec2Model ----
(***************************************************************************)
(* A model of src/analysis.py: the speed-test report generator.            *)
(*                                                                         *)
(* Text (Python str) is a sequence of Unicode code points.  A float is an  *)
(* exact fraction <<n, d>> in lowest terms with d > 0.  A timestamp is a   *)
(* record [instant, utcoffset], both in minutes: the instant counts from   *)
(* 1970-01-01T00:00Z (a Thursday) and the calendar fields are read at      *)
(* instant + utcoffset.  A DataFrame is the sequence of its rows.  A path  *)
(* ("dist/past_graph.html") is the sequence of its components.             *)
(***************************************************************************)
EXTENDS Integers, Sequences, FiniteSets, TLC

VARIABLES
    pc,              \* position of the running program
    caller,          \* "main", or "call" for a direct call of generate_graph_html
    csv,             \* the two input files: path name -> NoFile or its rows
    dirs,            \* the directories that exist below the working directory
    nocreate,        \* directories in which no entry can be created (permissions)
    files,           \* the (non-CSV) files that exist: path -> text
    engine_html,     \* the document the export engine emits, per report
    csv_file_path,   \* generate_graph_html's arguments
    html_file_path,
    report,          \* which of main's two calls ("past", "latest") is running
    prepared_df,     \* generate_graph_html's locals
    fig,
    median_df,
    ranges,          \* main's locals: report -> <<min, max>> of StartedAt
    stdout,          \* what has been printed
    exc,             \* the exception that ended the run, or "none"
    history,         \* the files this run wrote and post-processed, in order
    initial          \* the directories and files as the run found them

vars == <<pc, caller, csv, dirs, nocreate, files, engine_html, csv_file_path,
          html_file_path, report, prepared_df, fig, median_df, ranges,
          stdout, exc, history, initial>>

\* ------------------------------------------------------------------ bounds

\* Longest CSV file (data rows) of the wide-data inputs.
MaxRows == 3
\* Longest exported document, in chunks, of the wide-document inputs.
MaxChunks == 3

\* ------------------------------------------------------------- arithmetic

RECURSIVE GCD(_, _)
GCD(a, b) == IF b = 0 THEN a ELSE GCD(b, a % b)

\* The fraction n/d in lowest terms (n >= 0, d > 0).
Frac(n, d) == LET g == GCD(n, d) IN <<n \div g, d \div g>>

\* Python's true division of a float by an int.
FDiv(x, k) == Frac(x[1], x[2] * k)
FAdd(x, y) == Frac(x[1] * y[2] + y[1] * x[2], x[2] * y[2])
FLess(x, y) == x[1] * y[2] < y[1] * x[2]
FLeq(x, y) == x[1] * y[2] <= y[1] * x[2]

\* ------------------------------------------------------------------- text

\* str(n) for n >= 0: the decimal digits, U+0030 + digit.
RECURSIVE Str(_)
Str(n) == IF n < 10 THEN <<48 + n>> ELSE Str(n \div 10) \o <<48 + (n % 10)>>

\* '-' (U+002D)
Hyphen == <<45>>

\* Code-point order of two one-character strings, as Python compares str.
StrLess(a, b) == a[1] < b[1]

\* ------------------------------------------------------ load_and_prepare_data

\* A CSV file: whether it exists, and its data rows.
NoCsv == [exists |-> FALSE, rows |-> <<>>]
Csv(rows) == [exists |-> TRUE, rows |-> rows]

\* pytz.timezone('Asia/Tokyo'): UTC+9 at every instant since 1951, in minutes.
jst == 540

\* pd.to_datetime(..., utc=True): the instant, read in UTC.
to_datetime_utc(t) == [instant |-> t, utcoffset |-> 0]

\* Series.dt.tz_convert(tz): the same instant, read in the zone.
tz_convert(ts, tz) == [instant |-> ts.instant, utcoffset |-> tz]

\* Series.dt.dayofweek (Monday = 0) and Series.dt.hour.
dayofweek(ts) == (((ts.instant + ts.utcoffset) \div 1440) + 3) % 7
hour(ts) == ((ts.instant + ts.utcoffset) \div 60) % 24

\* {0: '月', 1: '火', 2: '水', 3: '木', 4: '金', 5: '土', 6: '日'}
weekday_map ==
    [i \in 0..6 |->
        CASE i = 0 -> <<26376>> [] i = 1 -> <<28779>> [] i = 2 -> <<27700>>
          [] i = 3 -> <<26408>> [] i = 4 -> <<37329>> [] i = 5 -> <<22303>>
          [] i = 6 -> <<26085>>]

\* The calendar columns derived from the UTC value.
StartedAt_not_converted(row) == to_datetime_utc(row.StartedAt)

\* df['StartedAt_JST']: StartedAt parsed as UTC, then converted to the zone.
StartedAt_JST(row) == tz_convert(to_datetime_utc(row.StartedAt), jst)

\* One row of prepared_df.
PrepareRow(row) ==
    [StartedAt_JST  |-> StartedAt_JST(row),
     weekday_index  |-> dayofweek(StartedAt_JST(row)),
     weekday_label  |-> weekday_map[dayofweek(StartedAt_JST(row))],
     hour           |-> hour(StartedAt_JST(row)),
     DownloadedMbps |-> FDiv(FDiv(<<row.DownloadedSpeed, 1>>, 1000), 1000),
     UploadedMbps   |-> FDiv(FDiv(<<row.UploadedSpeed, 1>>, 1000), 1000)]

PrepareRows(rows) == [i \in 1..Len(rows) |-> PrepareRow(rows[i])]

\* The missing file reported, and the run going on with no rows.
load_and_prepare_data_no_exit(file) ==
    IF ~file.exists
    THEN [printed |-> <<"not found">>, raised |-> "none", df |-> <<>>]
    ELSE [printed |-> <<>>, raised |-> "none", df |-> PrepareRows(file.rows)]

\* What load_and_prepare_data does with the file at file_path: the message
\* it prints, the exception it ends with, the frame it returns.
load_and_prepare_data(file) ==
    IF ~file.exists
    THEN [printed |-> <<"not found">>, raised |-> "SystemExit", df |-> <<>>]
    ELSE [printed |-> <<>>, raised |-> "none", df |-> PrepareRows(file.rows)]

\* ---------------------------------------------------------- calculate_medians

\* The values in ascending order (an insertion sort).
InsertValue(sorted, x) ==
    LET p == Cardinality({j \in 1..Len(sorted) : ~FLess(x, sorted[j])})
    IN SubSeq(sorted, 1, p) \o <<x>> \o SubSeq(sorted, p + 1, Len(sorted))

SortedValues(values) ==
    LET f[i \in 0..Len(values)] ==
            IF i = 0 THEN <<>> ELSE InsertValue(f[i - 1], values[i])
    IN f[Len(values)]

\* The lower middle value taken for an even count.
median_lower(values) ==
    LET s == SortedValues(values)
    IN s[(Len(s) + 1) \div 2]

\* Series.median(): the middle value, or the mean of the two middle values.
median(values) ==
    LET s == SortedValues(values)
        n == Len(s)
    IN IF n % 2 = 1 THEN s[(n + 1) \div 2]
       ELSE FDiv(FAdd(s[n \div 2], s[n \div 2 + 1]), 2)

\* x['曜日'] + '-' + x['時間'].astype(str)
KeyString(r) == r.weekday_label \o Hyphen \o Str(r.hour)

GroupKey(r) == <<r.weekday_label, r.hour, r.weekday_index>>

\* groupby(...) lists its groups in ascending order of the key tuple
\* (label by code point, then hour, then index).
GroupKeyLess(a, b) ==
    \/ StrLess(a[1], b[1])
    \/ a[1] = b[1] /\ a[2] < b[2]
    \/ a[1] = b[1] /\ a[2] = b[2] /\ a[3] < b[3]

\* The keys of the groups, in groupby's order.
GroupKeys(df) ==
    LET S == {GroupKey(df[i]) : i \in 1..Len(df)}
    IN [i \in 1..Cardinality(S) |->
          CHOOSE k \in S : Cardinality({j \in S : GroupKeyLess(j, k)}) = i - 1]

\* The rows of the group with key k, in the order of the frame.
GroupRows(df, k) ==
    LET f[i \in 0..Len(df)] ==
            IF i = 0 THEN <<>>
            ELSE IF GroupKey(df[i]) = k THEN Append(f[i - 1], df[i]) ELSE f[i - 1]
    IN f[Len(df)]

\* One row of groupby(['曜日', '時間', '曜日番号']).agg({'DownloadedMbps':
\* 'median', 'UploadedMbps': 'median', '箱ひげキー': 'first'}).reset_index()
Bucket(df, k) ==
    LET g == GroupRows(df, k)
    IN [weekday_label  |-> k[1],
        hour           |-> k[2],
        weekday_index  |-> k[3],
        DownloadedMbps |-> median([i \in 1..Len(g) |-> g[i].DownloadedMbps]),
        UploadedMbps   |-> median([i \in 1..Len(g) |-> g[i].UploadedMbps]),
        box_key        |-> KeyString(g[1])]

GroupedMedians(df) ==
    LET keys == GroupKeys(df)
    IN [i \in 1..Len(keys) |-> Bucket(df, keys[i])]

\* by=['曜日番号', '時間']
AxisLess(a, b) ==
    \/ a.weekday_index < b.weekday_index
    \/ a.weekday_index = b.weekday_index /\ a.hour < b.hour

\* sort_values(by=['曜日番号', '時間']): a stable sort (pandas sorts by
\* several columns with a stable lexsort).
InsertRow(sorted, x) ==
    LET p == Cardinality({j \in 1..Len(sorted) : ~AxisLess(x, sorted[j])})
    IN SubSeq(sorted, 1, p) \o <<x>> \o SubSeq(sorted, p + 1, Len(sorted))

sort_values(df) ==
    LET f[i \in 0..Len(df)] ==
            IF i = 0 THEN <<>> ELSE InsertRow(f[i - 1], df[i])
    IN f[Len(df)]

\* The groups left in groupby's order.
calculate_medians_unsorted(new_df) == GroupedMedians(new_df)

calculate_medians(new_df) == sort_values(GroupedMedians(new_df))

\* -------------------------------------------------------------- plot_graph

\* The box traces keyed by the weekday's number.
BoxX_by_index(r) == Str(r.weekday_index) \o Hyphen \o Str(r.hour)

\* sorted_df['曜日'].astype(str) + '-' + sorted_df['時間'].astype(str)
BoxX(r) == r.weekday_label \o Hyphen \o Str(r.hour)

BoxTraces(prepared) ==
    LET sorted_df == sort_values(prepared)
        x == [i \in 1..Len(sorted_df) |-> BoxX(sorted_df[i])]
    IN << [type |-> "Box", name |-> "Download", x |-> x,
           y |-> [i \in 1..Len(sorted_df) |-> sorted_df[i].DownloadedMbps]],
          [type |-> "Box", name |-> "Upload", x |-> x,
           y |-> [i \in 1..Len(sorted_df) |-> sorted_df[i].UploadedMbps]] >>

LineTraces(medians) ==
    << [type |-> "Scatter", name |-> "Download Median",
        x |-> [i \in 1..Len(medians) |-> medians[i].box_key],
        y |-> [i \in 1..Len(medians) |-> medians[i].DownloadedMbps]],
       [type |-> "Scatter", name |-> "Upload Median",
        x |-> [i \in 1..Len(medians) |-> medians[i].box_key],
        y |-> [i \in 1..Len(medians) |-> medians[i].UploadedMbps]] >>

\* ------------------------------------------------------------ file system

\* A file other than a CSV file: whether it exists, its text and, for an index
\* document, its links in place of the text.
NoFile == [exists |-> FALSE, data |-> <<>>, links |-> <<>>]
File(text) == [exists |-> TRUE, data |-> text, links |-> <<>>]
IndexFile(links) == [exists |-> TRUE, data |-> <<>>, links |-> links]

\* os.path.dirname: the path without its last component ('' for a bare name).
dirname(path) == SubSeq(path, 1, Len(path) - 1)

IsDir(ds, path) == path \in ds
IsFile(fl, path) == path \in DOMAIN fl /\ fl[path].exists
Exists(ds, fl, path) == IsDir(ds, path) \/ IsFile(fl, path)

\* The directory holding path's last component; <<>> is the working directory.
ParentUsable(ds, path) == dirname(path) = <<>> \/ IsDir(ds, dirname(path))

\* os.mkdir(name): the error it raises ("none": the directory is created).
mkdir(ds, nc, fl, name) ==
    IF name = <<>> THEN "FileNotFoundError"
    ELSE IF Exists(ds, fl, name) THEN "FileExistsError"
    ELSE IF IsFile(fl, dirname(name)) THEN "NotADirectoryError"
    ELSE IF ~ParentUsable(ds, name) THEN "FileNotFoundError"
    ELSE IF dirname(name) \in nc THEN "PermissionError"
    ELSE "none"

\* os.makedirs(name, exist_ok=True): the directories afterwards and the error
\* raised.  The missing ancestors are made first (a FileExistsError of theirs
\* is passed over); an OSError of the last mkdir is swallowed only when name
\* is a directory.
RECURSIVE makedirs(_, _, _, _)
makedirs(ds, nc, fl, name) ==
    LET head == dirname(name)
        up == IF name # <<>> /\ head # <<>> /\ ~Exists(ds, fl, head)
              THEN makedirs(ds, nc, fl, head)
              ELSE [dirs |-> ds, raised |-> "none"]
    IN IF up.raised \notin {"none", "FileExistsError"} THEN up
       ELSE LET err == mkdir(up.dirs, nc, fl, name)
            IN IF err = "none" THEN [dirs |-> up.dirs \cup {name}, raised |-> "none"]
               ELSE IF IsDir(up.dirs, name) THEN [dirs |-> up.dirs, raised |-> "none"]
               ELSE [dirs |-> up.dirs, raised |-> err]

\* open(path, 'w'): the error it raises ("none": the file is opened, truncated).
open_w(ds, nc, fl, path) ==
    IF path = <<>> THEN "FileNotFoundError"
    ELSE IF IsDir(ds, path) THEN "IsADirectoryError"
    ELSE IF IsFile(fl, dirname(path)) THEN "NotADirectoryError"
    ELSE IF ~ParentUsable(ds, path) THEN "FileNotFoundError"
    ELSE IF ~IsFile(fl, path) /\ dirname(path) \in nc THEN "PermissionError"
    ELSE "none"

\* save_as_html(fig, file_path): the directories and files afterwards and the
\* error raised; text is the document the export engine emits for fig.
save_as_html(ds, nc, fl, file_path, text) ==
    LET made == makedirs(ds, nc, fl, dirname(file_path))
        err == open_w(made.dirs, nc, fl, file_path)
    IN IF made.raised # "none"
       THEN [dirs |-> made.dirs, files |-> fl, raised |-> made.raised]
       ELSE IF err # "none"
       THEN [dirs |-> made.dirs, files |-> fl, raised |-> err]
       ELSE [dirs |-> made.dirs,
             files |-> [p \in DOMAIN fl \cup {file_path} |->
                          IF p = file_path THEN File(text) ELSE fl[p]],
             raised |-> "none"]

\* ------------------------------------------------------ add_japanese_metadata

\* '</head>'
head_close == <<60, 47, 104, 101, 97, 100, 62>>

\* '\n<meta name="language" content="ja" />\n<meta http-equiv="Content-Language" content="ja" />\n'
new_meta_tags ==
    <<
       10, 60, 109, 101, 116, 97, 32, 110, 97, 109, 101, 61, 34, 108, 97, 110,
       103, 117, 97, 103, 101, 34, 32, 99, 111, 110, 116, 101, 110, 116, 61, 34,
       106, 97, 34, 32, 47, 62, 10, 60, 109, 101, 116, 97, 32, 104, 116, 116,
       112, 45, 101, 113, 117, 105, 118, 61, 34, 67, 111, 110, 116, 101, 110, 116,
       45, 76, 97, 110, 103, 117, 97, 103, 101, 34, 32, 99, 111, 110, 116, 101,
       110, 116, 61, 34, 106, 97, 34, 32, 47, 62, 10
    >>

\* str.find(sub): the first index (from 1) where sub occurs in s, or 0.
RECURSIVE FindFrom(_, _, _)
FindFrom(s, sub, i) ==
    IF i + Len(sub) - 1 > Len(s) THEN 0
    ELSE IF SubSeq(s, i, i + Len(sub) - 1) = sub THEN i
    ELSE FindFrom(s, sub, i + 1)

\* s.replace(old, new): every occurrence replaced.
RECURSIVE replace_all(_, _, _)
replace_all(s, old, new) ==
    LET i == FindFrom(s, old, 1)
    IN IF i = 0 THEN s
       ELSE SubSeq(s, 1, i - 1) \o new
                \o replace_all(SubSeq(s, i + Len(old), Len(s)), old, new)

\* s.replace(old, new, 1): the first occurrence of old replaced by new.
replace_first(s, old, new) ==
    LET i == FindFrom(s, old, 1)
    IN IF i = 0 THEN s
       ELSE SubSeq(s, 1, i - 1) \o new \o SubSeq(s, i + Len(old), Len(s))

\* Universal newlines: '\r\n' and '\r' become '\n'.
RECURSIVE TranslateNewlines(_)
TranslateNewlines(data) ==
    IF data = <<>> THEN <<>>
    ELSE IF Head(data) # 13 THEN <<Head(data)>> \o TranslateNewlines(Tail(data))
    ELSE IF Len(data) >= 2 /\ data[2] = 10
         THEN <<10>> \o TranslateNewlines(Tail(Tail(data)))
    ELSE <<10>> \o TranslateNewlines(Tail(data))

\* file.read() of a file opened in text mode: the text with universal
\* newlines, which is the data itself when it holds no '\r'.
read_text(data) ==
    IF \A i \in 1..Len(data) : data[i] # 13 THEN data ELSE TranslateNewlines(data)

\* os.linesep of the platform, '\n' (one character on POSIX).
linesep == <<10>>

\* file.write(text) to a file opened in text mode: '\n' is written as os.linesep.
write_text(text) ==
    [i \in 1..Len(text) |-> IF text[i] = 10 THEN linesep[1] ELSE text[i]]

\* The content add_japanese_metadata leaves in a file that held data.
add_japanese_metadata(data) ==
    LET html_content == read_text(data)
    IN write_text(replace_first(html_content, head_close, new_meta_tags \o head_close))

\* -------------------------------------------------------- generate_index_html

\* The length of the longest common prefix of two paths.
RECURSIVE CommonLen(_, _)
CommonLen(a, b) ==
    IF a = <<>> \/ b = <<>> \/ Head(a) # Head(b) THEN 0
    ELSE 1 + CommonLen(Tail(a), Tail(b))

\* os.path.relpath(path, start)
relpath(path, start) ==
    LET c == CommonLen(path, start)
    IN [i \in 1..(Len(start) - c) |-> ".."] \o SubSeq(path, c + 1, Len(path))

\* The links of the index document, in the order of its <li> items.
index_content(index_path, past_html_path, latest_html_path, past_title, latest_title) ==
    << [href |-> relpath(past_html_path, dirname(index_path)), title |-> past_title],
       [href |-> relpath(latest_html_path, dirname(index_path)), title |-> latest_title] >>

\* ------------------------------------------------------ get_date_range_in_jst

Min(S) == CHOOSE x \in S : \A y \in S : x <= y
Max(S) == CHOOSE x \in S : \A y \in S : y <= x

\* The error get_date_range_in_jst raises for the file ("none": it returns):
\* read_csv raises for a missing file, and the minimum of no timestamps is
\* NaT, which cannot be converted or formatted.
date_range_error(file) ==
    IF ~file.exists THEN "FileNotFoundError"
    ELSE IF file.rows = <<>> THEN "ValueError"
    ELSE "none"

\* The oldest and the newest StartedAt, in the zone (formatting to
\* 'YYYY-MM-DD HH:MM' text is left out).
get_date_range_in_jst(file) ==
    LET ts == {file.rows[i].StartedAt : i \in 1..Len(file.rows)}
    IN << tz_convert(to_datetime_utc(Min(ts)), jst),
          tz_convert(to_datetime_utc(Max(ts)), jst) >>

\* ------------------------------------------------------------------ inputs

past_csv_file_path == "data/sampling_20250319_1229.csv"
latest_csv_file_path == "data/sampling.csv"
past_html_file_path == <<"dist", "past_graph.html">>
latest_html_file_path == <<"dist", "latest_graph.html">>
index_html_file_path == <<"dist", "index.html">>

Reports == {"past", "latest"}
NoRange == <<>>
CsvPaths == {past_csv_file_path, latest_csv_file_path}

SeqsUpTo(S, n) == UNION {[1..k -> S] : k \in 0..n}

\* StartedAt values, minutes since the epoch: 2025-03-16 (Sun) 14:59Z and
\* 15:00Z, 2025-03-19 (Wed) 03:05Z and 03:29Z, 2025-03-21 (Fri) 20:05Z.
Instants == {29035619, 29035620, 29039225, 29039249, 29043125}

\* Every hour of the week from 2025-03-16 (Sun) 00:00Z, at minutes 0 and 59.
WeekInstants == {29034720 + 60 * k + m : k \in 0..167, m \in {0, 59}}

\* <<DownloadedSpeed, UploadedSpeed>> of a sample.
Speeds == {<<2000000, 1000000>>, <<4000000, 1000000>>, <<1500000, 3000000>>}

Sample(t, sp) == [StartedAt |-> t, DownloadedSpeed |-> sp[1], UploadedSpeed |-> sp[2]]

Rows == {Sample(t, sp) : t \in Instants, sp \in Speeds}

\* Every CSV file of at most MaxRows data rows.
WideCsv == SeqsUpTo(Rows, MaxRows)

\* Two fixed CSV files.
SampleA ==
    << Sample(29039249, <<2000000, 1000000>>),
       Sample(29035620, <<1500000, 3000000>>),
       Sample(29039249, <<4000000, 1000000>>) >>
SampleB == << Sample(29043125, <<4000000, 1000000>>) >>

\* Pieces of documents: '</head>', '<head>', 'x', '</hea', '\n'.  The export
\* engine ends its lines with '\n'.
Chunks == {head_close, <<60, 104, 101, 97, 100, 62>>, <<120>>, <<60, 47, 104, 101, 97>>, <<10>>}

RECURSIVE Flatten(_)
Flatten(ss) == IF ss = <<>> THEN <<>> ELSE Head(ss) \o Flatten(Tail(ss))

\* Every document of at most MaxChunks pieces.
WideDocs == {Flatten(cs) : cs \in SeqsUpTo(Chunks, MaxChunks)}

\* '<head>x</head>\nx', 'x', '<head></head></head>'
PlainDoc == Flatten(<< <<60, 104, 101, 97, 100, 62>>, <<120>>, head_close, <<10, 120>> >>)
HeadlessDoc == <<120>>
TwoHeadsDoc == Flatten(<< <<60, 104, 101, 97, 100, 62>>, head_close, head_close >>)
SmallDocs == {PlainDoc, HeadlessDoc, TwoHeadsDoc}

\* What an earlier run left behind: 'old', and an index of one link.
StaleDoc == File(<<111, 108, 100>>)
StaleIndex == IndexFile(<< [href |-> <<"old.html">>, title |-> <<NoRange, "Old">>] >>)

Dist == <<"dist">>
DistReports == <<"dist", "reports">>

\* Destinations a caller passes to generate_graph_html.
DestPaths == {past_html_file_path, <<"graph.html">>, <<"dist", "reports", "past.html">>}

FilePaths == DestPaths \cup {latest_html_file_path, index_html_file_path, Dist}

NoFiles == [p \in FilePaths |-> NoFile]

\* A file system is consistent: a file's directory exists, a directory's
\* parent exists, and no path is both a file and a directory.
Consistent(ds, nc, fl) ==
    /\ \A d \in ds : ParentUsable(ds, d) /\ ~IsFile(fl, d)
    /\ \A p \in FilePaths : IsFile(fl, p) => ParentUsable(ds, p)
    /\ nc \subseteq ds \cup {<<>>}

\* The file systems main is run in: dist missing, present, present with the
\* artifacts of an earlier run, or a plain file; directories writable or not.
MainFileSystems ==
    {fs \in [dirs : SUBSET {Dist}, nocreate : SUBSET {<<>>, Dist},
             files : {NoFiles,
                      [NoFiles EXCEPT ![Dist] = StaleDoc],
                      [NoFiles EXCEPT ![past_html_file_path] = StaleDoc,
                                      ![latest_html_file_path] = StaleDoc,
                                      ![index_html_file_path] = StaleIndex]}] :
        Consistent(fs.dirs, fs.nocreate, fs.files)}

\* The file systems a direct call is made in.
CallFileSystems ==
    {fs \in [dirs : SUBSET {Dist, DistReports}, nocreate : SUBSET {<<>>, Dist, DistReports},
             files : {NoFiles, [NoFiles EXCEPT ![Dist] = StaleDoc]}
                       \cup {[NoFiles EXCEPT ![p] = StaleDoc] : p \in DestPaths}] :
        Consistent(fs.dirs, fs.nocreate, fs.files)}

EmptyFigure == [data |-> <<>>, layout |-> <<>>]

\* The locals before anything ran.
Fresh ==
    /\ prepared_df = <<>>
    /\ fig = EmptyFigure
    /\ median_df = <<>>
    /\ ranges = [r \in Reports |-> NoRange]
    /\ stdout = <<>>
    /\ exc = "none"
    /\ history = <<>>
    /\ initial = [dirs |-> dirs, files |-> files]

\* python analysis.py: main is about to run.
InitMain ==
    /\ pc = "main"
    /\ caller = "main"
    /\ csv \in [CsvPaths -> {NoCsv, Csv(<<>>), Csv(SampleA), Csv(SampleB)}]
    /\ \E fs \in MainFileSystems :
          dirs = fs.dirs /\ nocreate = fs.nocreate /\ files = fs.files
    /\ engine_html \in [Reports -> SmallDocs]
    /\ csv_file_path = past_csv_file_path
    /\ html_file_path = past_html_file_path
    /\ report = "past"
    /\ Fresh

\* A caller is about to run generate_graph_html(csv_file_path, html_file_path,
\* title): over every CSV file, or every hour of a week, or every file system
\* and destination, or every exported document.
InitCall ==
    /\ pc = "load_and_prepare_data"
    /\ caller = "call"
    /\ report = "past"
    /\ csv_file_path = past_csv_file_path
    /\ \/ /\ csv \in {[c \in CsvPaths |-> IF c = past_csv_file_path THEN Csv(f) ELSE NoCsv] :
                          f \in WideCsv}
          /\ dirs = {Dist} /\ nocreate = {} /\ files = NoFiles
          /\ html_file_path = past_html_file_path
          /\ engine_html = [r \in Reports |-> PlainDoc]
       \/ /\ csv \in {[c \in CsvPaths |-> IF c = past_csv_file_path
                                               THEN Csv(<<Sample(t, <<2000000, 1000000>>)>>)
                                               ELSE NoCsv] : t \in WeekInstants}
          /\ dirs = {Dist} /\ nocreate = {} /\ files = NoFiles
          /\ html_file_path = past_html_file_path
          /\ engine_html = [r \in Reports |-> PlainDoc]
       \/ /\ csv \in {[c \in CsvPaths |-> IF c = past_csv_file_path THEN f ELSE NoCsv] :
                          f \in {NoCsv, Csv(SampleA)}}
          /\ \E fs \in CallFileSystems :
                dirs = fs.dirs /\ nocreate = fs.nocreate /\ files = fs.files
          /\ html_file_path \in DestPaths
          /\ engine_html = [r \in Reports |-> PlainDoc]
       \/ /\ csv = [c \in CsvPaths |-> IF c = past_csv_file_path THEN Csv(SampleA) ELSE NoCsv]
          /\ dirs \in {{}, {Dist}} /\ nocreate = {} /\ files = NoFiles
          /\ html_file_path = past_html_file_path
          /\ engine_html \in {[r \in Reports |-> d] : d \in WideDocs}
    /\ Fresh

\* ----------------------------------------------------------------- actions

\* The exception e leaves the program: nothing catches it.
Raise(e) == pc' = "exit" /\ exc' = e

\* generate_graph_html, line 201.
LoadAndPrepareData ==
    /\ pc = "load_and_prepare_data"
    /\ LET r == load_and_prepare_data(csv[csv_file_path])
       IN /\ stdout' = stdout \o r.printed
          /\ IF r.raised # "none"
             THEN Raise(r.raised) /\ UNCHANGED prepared_df
             ELSE pc' = "add_box_plot_traces" /\ prepared_df' = r.df /\ UNCHANGED exc
    /\ UNCHANGED <<caller, csv, dirs, nocreate, files, engine_html, csv_file_path,
                   html_file_path, report, fig, median_df, ranges, history, initial>>

\* plot_graph, lines 117-119: a new figure gets the two box traces.
AddBoxPlotTraces ==
    /\ pc = "add_box_plot_traces"
    /\ fig' = [EmptyFigure EXCEPT !.data = @ \o BoxTraces(prepared_df)]
    /\ pc' = "add_line_plot_traces"
    /\ UNCHANGED <<caller, csv, dirs, nocreate, files, engine_html, csv_file_path,
                   html_file_path, report, prepared_df, median_df, ranges, stdout,
                   exc, history, initial>>

\* plot_graph, line 120.
AddLinePlotTraces ==
    /\ pc = "add_line_plot_traces"
    /\ median_df' = calculate_medians(prepared_df)
    /\ fig' = [fig EXCEPT !.data = @ \o LineTraces(median_df')]
    /\ pc' = "update_figure_layout"
    /\ UNCHANGED <<caller, csv, dirs, nocreate, files, engine_html, csv_file_path,
                   html_file_path, report, prepared_df, ranges, stdout, exc,
                   history, initial>>

\* The title main passes: the past report's names its date range, the latest
\* report's the current time.
Title == IF report = "past" THEN <<"range", ranges["past"]>> ELSE <<"updated">>

\* plot_graph, line 123.
UpdateFigureLayout ==
    /\ pc = "update_figure_layout"
    /\ fig' = [fig EXCEPT !.layout = [title |-> Title, boxmode |-> "group",
                                       showlegend |-> TRUE]]
    /\ pc' = "save_as_html"
    /\ UNCHANGED <<caller, csv, dirs, nocreate, files, engine_html, csv_file_path,
                   html_file_path, report, prepared_df, median_df, ranges, stdout,
                   exc, history, initial>>

\* generate_graph_html, line 204.
SaveAsHtml ==
    /\ pc = "save_as_html"
    /\ LET r == save_as_html(dirs, nocreate, files, html_file_path, engine_html[report])
       IN /\ dirs' = r.dirs
          /\ files' = r.files
          /\ IF r.raised # "none"
             THEN Raise(r.raised) /\ UNCHANGED history
             ELSE /\ pc' = "add_japanese_metadata"
                  /\ history' = Append(history, <<"save_as_html", html_file_path>>)
                  /\ UNCHANGED exc
    /\ UNCHANGED <<caller, csv, nocreate, engine_html, csv_file_path, html_file_path,
                   report, prepared_df, fig, median_df, ranges, stdout, initial>>

\* generate_graph_html, line 205.
AddJapaneseMetadata ==
    /\ pc = "add_japanese_metadata"
    /\ files' = [files EXCEPT ![html_file_path] = File(add_japanese_metadata(@.data))]
    /\ history' = Append(history, <<"add_japanese_metadata", html_file_path>>)
    /\ pc' = "completed"
    /\ UNCHANGED <<caller, csv, dirs, nocreate, engine_html, csv_file_path,
                   html_file_path, report, prepared_df, fig, median_df, ranges,
                   stdout, exc, initial>>

\* The index generated right after the first report.
AfterReport_index_first(r) == "generate_index_html"

\* Where main goes on after generate_graph_html returned.
AfterReport(r) == IF r = "past" THEN "latest" ELSE "generate_index_html"

\* generate_graph_html, line 206, and the return to the caller.
Completed ==
    /\ pc = "completed"
    /\ stdout' = Append(stdout, "completed")
    /\ pc' = IF caller = "main" THEN AfterReport(report) ELSE "returned"
    /\ UNCHANGED <<caller, csv, dirs, nocreate, files, engine_html, csv_file_path,
                   html_file_path, report, prepared_df, fig, median_df, ranges,
                   exc, history, initial>>

GenerateGraphHtml ==
    \/ LoadAndPrepareData
    \/ AddBoxPlotTraces
    \/ AddLinePlotTraces
    \/ UpdateFigureLayout
    \/ SaveAsHtml
    \/ AddJapaneseMetadata
    \/ Completed

\* main, lines 259-268 (r = "past") and 270-279 (r = "latest"): the date
\* range of the report's CSV file, then the call of generate_graph_html.
StartReport(r, csv_path, html_path) ==
    /\ report' = r
    /\ LET err == date_range_error(csv[csv_path])
       IN IF err # "none"
          THEN Raise(err) /\ UNCHANGED <<ranges, csv_file_path, html_file_path>>
          ELSE /\ ranges' = [ranges EXCEPT ![r] = get_date_range_in_jst(csv[csv_path])]
               /\ csv_file_path' = csv_path
               /\ html_file_path' = html_path
               /\ pc' = "load_and_prepare_data"
               /\ UNCHANGED exc
    /\ UNCHANGED <<caller, csv, dirs, nocreate, files, engine_html, prepared_df, fig,
                   median_df, stdout, history, initial>>

PastReport ==
    /\ pc = "main"
    /\ StartReport("past", past_csv_file_path, past_html_file_path)

LatestReport ==
    /\ pc = "latest"
    /\ StartReport("latest", latest_csv_file_path, latest_html_file_path)

\* main, lines 282-288.
GenerateIndexHtml ==
    /\ pc = "generate_index_html"
    /\ LET err == open_w(dirs, nocreate, files, index_html_file_path)
           content == index_content(index_html_file_path, past_html_file_path,
                                    latest_html_file_path,
                                    <<ranges["past"], "Past">>,
                                    <<ranges["latest"], "Latest">>)
       IN IF err # "none"
          THEN Raise(err) /\ UNCHANGED <<files, history, stdout>>
          ELSE /\ files' = [files EXCEPT ![index_html_file_path] = IndexFile(content)]
               /\ history' = Append(history, <<"generate_index_html", index_html_file_path>>)
               /\ stdout' = Append(stdout, "index generated")
               /\ pc' = "done"
               /\ UNCHANGED exc
    /\ UNCHANGED <<caller, csv, dirs, nocreate, engine_html, csv_file_path,
                   html_file_path, report, prepared_df, fig, median_df, ranges, initial>>

Next == PastReport \/ GenerateGraphHtml \/ LatestReport \/ GenerateIndexHtml

\* A run of main.
Spec == InitMain /\ [][Next]_vars

\* A direct call of generate_graph_html.
SpecCall == InitCall /\ [][GenerateGraphHtml]_vars

\* ------------------------------------------------------------------ claims

\* generate_graph_html has returned from load_and_prepare_data, and from
\* add_line_plot_traces.
Loaded == pc \in {"add_box_plot_traces", "add_line_plot_traces", "update_figure_layout",
                  "save_as_html", "add_japanese_metadata", "completed", "returned"}
Plotted == pc \in {"update_figure_layout", "save_as_html", "add_japanese_metadata",
                   "completed", "returned"}

Pair(r) == <<r.weekday_index, r.hour>>
Pairs(df) == {Pair(df[i]) : i \in 1..Len(df)}

\* The distinct elements of s in the order of their first occurrence.
FirstOccurrences(s) ==
    LET f[i \in 0..Len(s)] ==
            IF i = 0 THEN <<>>
            ELSE IF \E j \in 1..(i - 1) : s[j] = s[i] THEN f[i - 1]
            ELSE Append(f[i - 1], s[i])
    IN f[Len(s)]

\* C1: the buckets calculate_medians returns are in strictly ascending
\* (weekday_index, hour) order, whatever the order of the input records.
C1_BucketsAscending ==
    Plotted =>
        \A i \in 1..(Len(median_df) - 1) :
            \/ median_df[i].weekday_index < median_df[i + 1].weekday_index
            \/ /\ median_df[i].weekday_index = median_df[i + 1].weekday_index
               /\ median_df[i].hour < median_df[i + 1].hour

\* Three buckets or more, from records given out of order.
C1_Witness ==
    /\ Plotted
    /\ Len(median_df) >= 3
    /\ \E i \in 1..(Len(prepared_df) - 1) :
          Pair(prepared_df[i + 1])[1] < Pair(prepared_df[i])[1]

\* C2: the distinct category labels of each box trace, in order of first
\* occurrence, are exactly the keys of the median traces, and each key is the
\* "{weekday_label}-{hour}" string of its bucket.
C2_CategoryKeysAligned ==
    Plotted =>
        /\ Len(fig.data) = 4
        /\ FirstOccurrences(fig.data[1].x) = fig.data[3].x
        /\ FirstOccurrences(fig.data[2].x) = fig.data[4].x
        /\ fig.data[3].x = fig.data[4].x
        /\ Len(fig.data[3].x) = Len(median_df)
        /\ \A i \in 1..Len(median_df) :
              fig.data[3].x[i] = weekday_map[median_df[i].weekday_index]
                                    \o <<45>> \o Str(median_df[i].hour)

\* Several buckets, one of them holding several records.
C2_Witness ==
    /\ Plotted
    /\ Len(median_df) >= 2
    /\ Len(prepared_df) > Len(median_df)

\* v is the k-th smallest of the values (counted from 1).
IsOrderStatistic(v, values, k) ==
    /\ \E i \in 1..Len(values) : values[i] = v
    /\ Cardinality({i \in 1..Len(values) : FLess(values[i], v)}) < k
    /\ k <= Cardinality({i \in 1..Len(values) : FLeq(values[i], v)})

\* m is the statistical median of the values.
IsMedian(m, values) ==
    LET n == Len(values)
    IN IF n % 2 = 1 THEN IsOrderStatistic(m, values, (n + 1) \div 2)
       ELSE \E i, j \in 1..n :
               /\ IsOrderStatistic(values[i], values, n \div 2)
               /\ IsOrderStatistic(values[j], values, n \div 2 + 1)
               /\ FAdd(m, m) = FAdd(values[i], values[j])

\* The rows of df with the (weekday_index, hour) pair.
RowsOf(df, pair) ==
    LET f[i \in 0..Len(df)] ==
            IF i = 0 THEN <<>>
            ELSE IF Pair(df[i]) = pair THEN Append(f[i - 1], df[i]) ELSE f[i - 1]
    IN f[Len(df)]
DownloadsOf(df, pair) ==
    [i \in 1..Len(RowsOf(df, pair)) |-> RowsOf(df, pair)[i].DownloadedMbps]
UploadsOf(df, pair) ==
    [i \in 1..Len(RowsOf(df, pair)) |-> RowsOf(df, pair)[i].UploadedMbps]

\* C3: calculate_medians returns exactly one bucket for each (weekday_index,
\* hour) pair that occurs in the records and none for any other pair, and a
\* bucket's two medians are the statistical medians of the rates of exactly
\* the records with its pair.
C3_OneBucketPerPairWithMedians ==
    Plotted =>
        /\ Pairs(median_df) = Pairs(prepared_df)
        /\ Len(median_df) = Cardinality(Pairs(prepared_df))
        /\ \A i \in 1..Len(median_df) :
              /\ IsMedian(median_df[i].DownloadedMbps,
                          DownloadsOf(prepared_df, Pair(median_df[i])))
              /\ IsMedian(median_df[i].UploadedMbps,
                          UploadsOf(prepared_df, Pair(median_df[i])))

\* Two buckets, one with the download rates 2 and 4 and the median 3.
C3_Witness ==
    /\ Plotted
    /\ Len(median_df) = 2
    /\ \E i \in 1..Len(median_df) :
          /\ DownloadsOf(prepared_df, Pair(median_df[i]))
                \in {<< <<2, 1>>, <<4, 1>> >>, << <<4, 1>>, <<2, 1>> >>}
          /\ median_df[i].DownloadedMbps = <<3, 1>>

\* The weekday (Monday = 0) and the hour of the instant t in UTC.
UtcWeekday(t) == ((t \div 1440) + 3) % 7
UtcHour(t) == (t \div 60) % 24

\* C4: a record's hour and weekday_index are those of its timestamp in
\* Asia/Tokyo: for the UTC weekday w and hour h, hour (h + 9) mod 24, and
\* weekday w when h < 15, (w + 1) mod 7 when h >= 15.
C4_CalendarInLocalZone ==
    Loaded =>
        /\ Len(prepared_df) = Len(csv[csv_file_path].rows)
        /\ \A i \in 1..Len(prepared_df) :
              LET t == csv[csv_file_path].rows[i].StartedAt
                  w == UtcWeekday(t)
                  h == UtcHour(t)
              IN /\ prepared_df[i].hour = (h + 9) % 24
                 /\ prepared_df[i].weekday_index = IF h < 15 THEN w ELSE (w + 1) % 7
                 /\ prepared_df[i].weekday_label = weekday_map[prepared_df[i].weekday_index]

\* A Sunday evening in UTC that is a Monday morning in the zone.
C4_Witness ==
    /\ Loaded
    /\ \E i \in 1..Len(prepared_df) :
          /\ UtcWeekday(csv[csv_file_path].rows[i].StartedAt) = 6
          /\ UtcHour(csv[csv_file_path].rows[i].StartedAt) >= 15
          /\ prepared_df[i].weekday_index = 0

\* C5: when the CSV file of a report does not exist, the call reports it and
\* ends in load_and_prepare_data: no file is written, no directory created.
C5_MissingInputStops ==
    ~csv[csv_file_path].exists =>
        /\ dirs = initial.dirs
        /\ files = initial.files
        /\ history = <<>>
        /\ pc \in {"load_and_prepare_data", "exit"}
        /\ pc = "exit" => exc = "SystemExit" /\ stdout = <<"not found">>

\* The call has ended on a missing file, with no dist directory before it.
C5_Witness ==
    /\ ~csv[csv_file_path].exists
    /\ pc = "exit"
    /\ initial.dirs = {}
    /\ html_file_path = past_html_file_path

\* C6: whether the past report build succeeds or fails, main attempts the
\* latest report build before it ends.
C6_LatestAlwaysAttempted ==
    pc \in {"exit", "done"} => report = "latest"

\* C7: given zero records, calculate_medians fails with EmptyInputError: it
\* returns nothing and no chart or artifact is built.
C7_EmptyInputFails ==
    (csv[csv_file_path].exists /\ csv[csv_file_path].rows = <<>>) =>
        /\ ~Plotted
        /\ pc = "exit" => exc = "EmptyInputError"
        /\ history = <<>>

Occurrences(s, sub) ==
    {i \in 1..Len(s) : i + Len(sub) - 1 <= Len(s) /\ SubSeq(s, i, i + Len(sub) - 1) = sub}

\* C8: add_japanese_metadata, run after save_as_html wrote the file, inserts
\* the meta tags right before the first '</head>' and nowhere else; all the
\* rest of the document, later '</head>' included, stays as it was, and a
\* document without '</head>' stays unchanged.
C8_MetaBeforeFirstHeadClose ==
    pc \in {"completed", "returned"} =>
        LET before == engine_html[report]
            after == files[html_file_path].data
            at == Occurrences(before, head_close)
        IN /\ history = << <<"save_as_html", html_file_path>>,
                           <<"add_japanese_metadata", html_file_path>> >>
           /\ at = {} => after = before
           /\ at # {} =>
                LET i == Min(at)
                IN /\ Len(after) = Len(before) + Len(new_meta_tags)
                   /\ SubSeq(after, 1, i - 1) = SubSeq(before, 1, i - 1)
                   /\ SubSeq(after, i, i + Len(new_meta_tags) - 1) = new_meta_tags
                   /\ SubSeq(after, i + Len(new_meta_tags), Len(after))
                        = SubSeq(before, i, Len(before))
                   /\ Cardinality(Occurrences(after, new_meta_tags)) = 1

\* A document with two '</head>', the first not at its start.
C8_Witness ==
    /\ pc = "completed"
    /\ Cardinality(Occurrences(engine_html[report], head_close)) >= 2
    /\ Min(Occurrences(engine_html[report], head_close)) > 1

\* C9: for every destination, a bare file name included, save_as_html has
\* the destination's directory in place when it hands over to the export
\* engine, and the step that creates it succeeds whenever nothing stands in
\* the way (every directory is writable, no file sits where a directory
\* belongs), whether the directories were there before or not.
C9_ParentDirsEnsured ==
    /\ pc \in {"add_japanese_metadata", "completed", "returned"} =>
          ParentUsable(dirs, html_file_path) /\ IsFile(files, html_file_path)
    /\ (nocreate = {} /\ ~IsFile(initial.files, Dist)) =>
          exc \in {"none", "SystemExit"}

Wrote(what) == \E i \in 1..Len(history) : history[i][1] = what

\* C10: main writes the index only after both reports were exported and
\* post-processed, past first, and the index lists the past report before
\* the latest; a run in which a report build failed writes no index.
C10_IndexAfterBothReports ==
    /\ pc \in {"generate_index_html", "done"} =>
          /\ exc = "none"
          /\ Len(history) >= 4
          /\ SubSeq(history, 1, 4) =
                << <<"save_as_html", past_html_file_path>>,
                   <<"add_japanese_metadata", past_html_file_path>>,
                   <<"save_as_html", latest_html_file_path>>,
                   <<"add_japanese_metadata", latest_html_file_path>> >>
    /\ Wrote("generate_index_html") =>
          /\ pc = "done"
          /\ Len(history) = 5
          /\ [i \in 1..Len(files[index_html_file_path].links) |->
                 files[index_html_file_path].links[i].href]
                = << <<"past_graph.html">>, <<"latest_graph.html">> >>
    /\ ~Wrote("generate_index_html") =>
          files[index_html_file_path] = initial.files[index_html_file_path]
    /\ exc # "none" => ~Wrote("generate_index_html")

\* The index written over the one an earlier run left behind.
C10_Witness ==
    /\ pc = "done"
    /\ Wrote("generate_index_html")
    /\ initial.files[index_html_file_path].exists

====
